---- MODULE Spec2Model ----
(***************************************************************************)
(* The request handlers of projects/views.py as a state machine over the   *)
(* database tables they read and write (Project, Component, Unit, POFile,  *)
(* POFileLock).  Every handler is one action: it takes a request, runs the *)
(* whole view function and leaves the response and the ordered list of     *)
(* collaborator calls it made (ORM writes, audit-log recorders, user       *)
(* messages, backend calls) in resp and ops.  A second specification,      *)
(* SpecRace, runs component_toggle_lock_file as separate database steps of *)
(* several concurrent requests.                                            *)
(***************************************************************************)
EXTENDS Integers, Sequences, FiniteSets, TLC

VARIABLES projects, components, units, pofiles, locks, req, resp, ops, inflight

vars == <<projects, components, units, pofiles, locks, req, resp, ops, inflight>>

db == <<projects, components, units, pofiles, locks>>

(* ------------------------------ bounds --------------------------------- *)

NUsers == 2
NFiles == 1
NReq == 2
MaxUnits == 2

Anonymous == 0
Users == 1..NUsers
Clients == Users \cup {Anonymous}
ProjectSlugs == {"p1"}
ComponentSlugs == {"c1"}
ProjectNames == {"n1", "n2"}
Filenames == 1..NFiles
RequestFilenames == 1..(NFiles + 1)
UnitIds == 1..MaxUnits
LockSerials == 1..(2 * NReq)
Methods == {"GET", "POST"}

(* ----------------------------- responses ------------------------------- *)

Redirect(target) == [kind |-> "redirect", target |-> target]
Render(template) == [kind |-> "render", target |-> <<template>>]
NotFound == [kind |-> "404", target |-> <<>>]
Raised(exc) == [kind |-> "error", target |-> <<exc>>]
LoginRedirect == [kind |-> "redirect", target |-> <<"login">>]
Content(disposition) == [kind |-> "content", target |-> <<disposition>>]
Feed(url) == [kind |-> "feed", target |-> url]
NoResponse == [kind |-> "none", target |-> <<>>]

ComponentDetailUrl(p, c) == <<"component_detail", p, c>>
ProjectDetailUrl(p) == <<"project_detail", p>>
ProjectListUrl == <<"project_list">>

(* --------------------------- user messages ----------------------------- *)

MsgProjectDeleted == "message: The %s was deleted. (project)"
MsgComponentDeleted == "message: The %s was deleted. (component)"
MsgFileFilter == "message: The file filter ... does not seem to allow the POTFILES.in file. Please fix it."
MsgSelectFile == "message: Please select a file from your system to be uploaded."
MsgSubmitted == "message: File submited successfully"
MsgSorry == "message: Sorry, an error is causing troubles to send your file."
MsgNeedPost == "message: Sorry, but you need to send a POST request."
MsgLockRemoved == "message: Lock removed."
MsgLockNotOwner == "message: Error: Only the owner of a lock can remove it."
MsgLockCreated == "message: Lock created. Please don't forget to remove it when you're done."

(* ------------------------------ requests ------------------------------- *)

BaseReq ==
    [h |-> "", user |-> Anonymous, method |-> "GET", p |-> "", c |-> "",
     f |-> 0, fslug |-> "", name |-> "", valid |-> FALSE, uvalid |-> FALSE,
     has_file |-> FALSE, has_lang |-> FALSE, view |-> FALSE,
     fail |-> "none", content |-> "ok"]

IsAuthenticated(user) == user # Anonymous

LoginRequiredHandlers ==
    {"project_create_update", "project_delete", "component_create_update",
     "component_delete", "component_clear_cache", "component_submit_file",
     "component_toggle_lock_file"}

LoginGuardStops(r) == r.h \in LoginRequiredHandlers /\ ~IsAuthenticated(r.user)

IsPost(r) == r.method = "POST"

(* ------------------------------ lookups -------------------------------- *)

ProjectRows(p) == {x \in projects : x.slug = p}
ComponentRows(p, c) ==
    {x \in components : x.slug = c /\ x.p = p /\ ProjectRows(p) # {}}
POFileRows(p, c, f) == {x \in pofiles : x.p = p /\ x.c = c /\ x.f = f}
LockRows(pofile) == {x \in locks : x.pofile = pofile}
UnitRows(id) == {x \in units : x.id = id}

GetFullName(p, c) == <<p, c>>

FreeUnitIds == {i \in UnitIds : UnitRows(i) = {}}
FreshUnitId == CHOOSE i \in FreeUnitIds : \A j \in FreeUnitIds : i <= j

\* A new POFileLock row is a row of its own: n tells it from the other rows
\* of the same POFile and owner, those a request in flight still holds from
\* its lookup included.
HeldLocks == UNION {inflight[i].got : i \in DOMAIN inflight}
FreeLockSerials(pofile, owner) ==
    {n \in LockSerials :
        [pofile |-> pofile, owner |-> owner, n |-> n] \notin locks \cup HeldLocks}
FreshLockSerial(pofile, owner) ==
    CHOOSE n \in FreeLockSerials(pofile, owner) :
        \A m \in FreeLockSerials(pofile, owner) : n <= m

(* ------------------- outcome of a handler: one record ------------------ *)

Outcome(r, o, pr, co, un, po, lo) ==
    [resp |-> r, ops |-> o, projects |-> pr, components |-> co, units |-> un,
     pofiles |-> po, locks |-> lo]

Pure(r, o) == Outcome(r, o, projects, components, units, pofiles, locks)

Apply(r, out) ==
    /\ req' = r
    /\ resp' = out.resp
    /\ ops' = out.ops
    /\ projects' = out.projects
    /\ components' = out.components
    /\ units' = out.units
    /\ pofiles' = out.pofiles
    /\ locks' = out.locks
    /\ UNCHANGED inflight

(* ----------------------------- slug_feed ------------------------------- *)

SlugFeed(r) ==
    Pure(Feed(IF r.p # "" THEN <<r.p, r.name>> ELSE <<r.name>>), <<"feed">>)

(* ------------------------ project_create_update ------------------------ *)

\* The two audit-log recorders swapped.
ProjectLogEntry_Swapped(instance) ==
    IF instance = {} THEN "log_change" ELSE "log_addition"

ProjectLogEntry(instance) ==
    IF instance = {} THEN "log_addition" ELSE "log_change"

ProjectCreateUpdate(r) ==
    LET instance == ProjectRows(r.p)
        project == [slug |-> r.fslug, name |-> r.name]
    IN  IF LoginGuardStops(r) THEN Pure(LoginRedirect, <<>>)
        ELSE IF r.p # "" /\ instance = {} THEN Pure(NotFound, <<>>)
        ELSE IF IsPost(r) /\ r.valid
        THEN Outcome(Redirect(ProjectDetailUrl(project.slug)),
                     <<"project.save", "project_form.save_m2m",
                       ProjectLogEntry(instance)>>,
                     (projects \ instance) \cup {project},
                     components, units, pofiles, locks)
        ELSE Pure(Render("projects/project_form.html"), <<>>)

(* ---------------------------- project_delete --------------------------- *)

\* The method check dropped: a GET deletes.
DeleteConfirmed_AnyMethod(r) == TRUE

DeleteConfirmed(r) == r.method = "POST"

ProjectDelete(r) ==
    LET project == ProjectRows(r.p)
    IN  IF LoginGuardStops(r) THEN Pure(LoginRedirect, <<>>)
        ELSE IF project = {} THEN Pure(NotFound, <<>>)
        ELSE IF DeleteConfirmed(r)
        THEN Outcome(Redirect(ProjectListUrl),
                     <<"project.delete", "log_deletion", MsgProjectDeleted>>,
                     projects \ project,
                     {x \in components : x.p # r.p},
                     units,
                     {x \in pofiles : x.p # r.p},
                     {x \in locks : x.pofile.p # r.p})
        ELSE Pure(Render("projects/project_confirm_delete.html"), <<>>)

(* ----------------------- component_create_update ----------------------- *)

\* Only the component form decides.
BothFormsValid_ComponentOnly(r) == r.valid

BothFormsValid(r) == r.valid /\ r.uvalid

ComponentLogEntry(instance) ==
    IF instance = {} THEN "log_addition" ELSE "log_change"

\* unit_form.save(commit=False): the posted unit, on the component's unit row
\* when there is one (id 0: not saved yet).
UnitFromForm(instance) ==
    [id |-> IF instance = {} THEN 0 ELSE (CHOOSE x \in instance : TRUE).unit,
     name |-> <<"posted">>]

\* unit.save(): an insert gives the row its id, an update keeps it.
UnitSaved(unit) == IF unit.id = 0 THEN [unit EXCEPT !.id = FreshUnitId] ELSE unit

ComponentCreateUpdate(r) ==
    LET project == ProjectRows(r.p)
        instance == ComponentRows(r.p, r.c)
        component0 == [p |-> r.p, slug |-> r.fslug, unit |-> 0]
        unit0 == UnitFromForm(instance)
        unit1 == [unit0 EXCEPT !.name = GetFullName(component0.p, component0.slug)]
        unit2 == UnitSaved(unit1)
        component1 == [component0 EXCEPT !.unit = unit2.id]
    IN  IF LoginGuardStops(r) THEN Pure(LoginRedirect, <<>>)
        ELSE IF project = {} THEN Pure(NotFound, <<>>)
        ELSE IF r.c # "" /\ instance = {} THEN Pure(NotFound, <<>>)
        ELSE IF IsPost(r) /\ BothFormsValid(r)
        THEN Outcome(Redirect(ComponentDetailUrl(r.p, component1.slug)),
                     <<"unit.name = component.get_full_name()", "unit.save",
                       "component.unit = unit", "component.save",
                       "component_form.save_m2m", ComponentLogEntry(instance)>>,
                     projects,
                     (components \ instance) \cup {component1},
                     {x \in units : x.id # unit2.id} \cup {unit2},
                     pofiles, locks)
        ELSE Pure(Render("projects/component_form.html"), <<>>)

(* --------------------------- component_detail -------------------------- *)

ComponentDetail(r) ==
    IF ComponentRows(r.p, r.c) = {} THEN Pure(NotFound, <<>>)
    ELSE Pure(Render("projects/component_detail.html"), <<>>)

(* --------------------------- component_delete -------------------------- *)

ComponentDelete(r) ==
    LET component == ComponentRows(r.p, r.c)
    IN  IF LoginGuardStops(r) THEN Pure(LoginRedirect, <<>>)
        ELSE IF component = {} THEN Pure(NotFound, <<>>)
        ELSE IF DeleteConfirmed(r)
        THEN Outcome(Redirect(ProjectDetailUrl(r.p)),
                     <<"component.delete", MsgComponentDeleted, "log_deletion">>,
                     projects,
                     components \ component,
                     units,
                     {x \in pofiles : ~(x.p = r.p /\ x.c = r.c)},
                     {x \in locks : ~(x.pofile.p = r.p /\ x.pofile.c = r.c)})
        ELSE Pure(Render("projects/component_confirm_delete.html"), <<>>)

(* -------------------------- component_set_stats ------------------------ *)

\* request.user.message_set.create(...): the anonymous user of an unguarded
\* request has no message_set, and the attribute lookup raises.
MessageRaises(user) == ~IsAuthenticated(user)

ComponentSetStats(r) ==
    IF LoginGuardStops(r) THEN Pure(LoginRedirect, <<>>)
    ELSE IF ComponentRows(r.p, r.c) = {} THEN Pure(NotFound, <<>>)
    ELSE IF r.fail = "prepare_repo"
    THEN Pure(Raised("prepare_repo"), <<"prepare_repo">>)
    ELSE IF r.fail = "none"
    THEN Pure(Redirect(ComponentDetailUrl(r.p, r.c)),
              <<"prepare_repo", "trans.set_stats">>)
    ELSE IF r.fail = "FileFilterError"
    THEN IF MessageRaises(r.user)
         THEN Pure(Raised("AttributeError"), <<"prepare_repo", "trans.set_stats">>)
         ELSE Pure(Redirect(ComponentDetailUrl(r.p, r.c)),
                   <<"prepare_repo", "trans.set_stats", MsgFileFilter>>)
    ELSE Pure(Raised("set_stats"), <<"prepare_repo", "trans.set_stats">>)

(* ------------------------- component_clear_cache ----------------------- *)

ComponentClearCache(r) ==
    IF LoginGuardStops(r) THEN Pure(LoginRedirect, <<>>)
    ELSE IF ComponentRows(r.p, r.c) = {} THEN Pure(NotFound, <<>>)
    ELSE Pure(Redirect(ComponentDetailUrl(r.p, r.c)), <<"clear_cache">>)

(* ----------------------------- component_file -------------------------- *)

\* The IOError handler dropped: the missing file is served as content.
FileContentMissing_Never(r) == FALSE

\* except IOError: raise Http404
FileContentMissing(r) == r.content = "IOError"

ComponentFile(r) ==
    IF ComponentRows(r.p, r.c) = {} THEN Pure(NotFound, <<>>)
    ELSE IF FileContentMissing(r)
    THEN Pure(NotFound, <<"trans.get_file_content">>)
    ELSE IF r.view
    THEN IF r.content = "not-utf8"
         THEN Pure(Raised("UnicodeDecodeError"), <<"trans.get_file_content">>)
         ELSE Pure(Content("inline"),
                   <<"trans.get_file_content", "pygments.highlight">>)
    ELSE Pure(Content("attachment"), <<"trans.get_file_content">>)

(* -------------------------- component_submit_file ---------------------- *)

\* The missing file field goes unnoticed.
HasSubmittedFile_Always(r) == TRUE

\* request.FILES['submited_file'] is there (no MultiValueDictKeyError)
HasSubmittedFile(r) == r.has_file

LanguageOps(r) == IF r.has_lang THEN <<>> ELSE <<"trans.guess_language">>

ComponentSubmitFile(r) ==
    LET detail == Redirect(ComponentDetailUrl(r.p, r.c))
        checkout == <<"prepare_repo">> \o LanguageOps(r)
    IN  IF LoginGuardStops(r) THEN Pure(LoginRedirect, <<>>)
        ELSE IF ~IsPost(r) THEN Pure(detail, <<MsgNeedPost>>)
        ELSE IF ComponentRows(r.p, r.c) = {} THEN Pure(NotFound, <<>>)
        ELSE IF POFileRows(r.p, r.c, r.f) = {} THEN Pure(NotFound, <<>>)
        ELSE IF ~HasSubmittedFile(r) THEN Pure(detail, <<MsgSelectFile>>)
        ELSE IF r.fail = "prepare_repo"
        THEN Pure(Raised("prepare_repo"), <<"prepare_repo">>)
        \* the first component.submit stands outside the try block
        ELSE IF r.fail = "submit1"
        THEN Pure(Raised("submit"), checkout \o <<"submit">>)
        \* inside the try block; the handler of the bare except reads the
        \* unbound name e, so a caught failure leaves as a NameError
        ELSE IF r.fail = "submit2"
        THEN Pure(Raised("NameError"), checkout \o <<"submit", "submit">>)
        ELSE IF r.fail = "set_stats_for_lang"
        THEN Pure(Raised("NameError"),
                  checkout \o <<"submit", "submit", "trans.set_stats_for_lang">>)
        ELSE Pure(detail,
                  checkout \o <<"submit", "submit", "trans.set_stats_for_lang",
                                MsgSubmitted>>)

(* ----------------------- component_toggle_lock_file -------------------- *)

\* The ownership check dropped: any user removes the lock.
OwnerMayRemove_Anyone(user, lock) == TRUE

\* if request.user == lock.owner
OwnerMayRemove(user, lock) == user = lock.owner

NewLock(pofile, user) ==
    [pofile |-> pofile, owner |-> user, n |-> FreshLockSerial(pofile, user)]

\* The branch taken on the result of POFileLock.objects.get(pofile=pofile):
\* got is the set of rows the query saw (empty: DoesNotExist).
ToggleAct(user, pofile, got, p, c) ==
    LET detail == Redirect(ComponentDetailUrl(p, c))
        lock == CHOOSE x \in got : TRUE
    IN  IF got = {}
        THEN [resp |-> detail, ops |-> <<"lock.create", MsgLockCreated>>,
              locks |-> locks \cup {NewLock(pofile, user)}]
        ELSE IF OwnerMayRemove(user, lock)
        THEN [resp |-> detail, ops |-> <<"lock.delete", MsgLockRemoved>>,
              locks |-> locks \ {lock}]
        ELSE [resp |-> detail, ops |-> <<MsgLockNotOwner>>, locks |-> locks]

ComponentToggleLockFile(r) ==
    LET pofile == [p |-> r.p, c |-> r.c, f |-> r.f]
        got == LockRows(pofile)
        act == ToggleAct(r.user, pofile, got, r.p, r.c)
    IN  IF LoginGuardStops(r) THEN Pure(LoginRedirect, <<>>)
        ELSE IF ComponentRows(r.p, r.c) = {} THEN Pure(NotFound, <<>>)
        ELSE IF POFileRows(r.p, r.c, r.f) = {} THEN Pure(NotFound, <<>>)
        ELSE IF Cardinality(got) > 1
        THEN Pure(Raised("MultipleObjectsReturned"), <<>>)
        ELSE Outcome(act.resp, act.ops, projects, components, units, pofiles,
                     act.locks)

(* ------------------- component_toggle_lock_file, by steps -------------- *)

IdleRequest ==
    [pc |-> "idle", user |-> Anonymous, p |-> "", c |-> "", f |-> 0,
     got |-> {}, resp |-> NoResponse, ops |-> <<>>]

\* The request up to and including POFileLock.objects.get(pofile=pofile).
RaceLookup(i) ==
    /\ inflight[i].pc = "idle"
    /\ \E user \in Users, p \in ProjectSlugs, c \in ComponentSlugs,
          f \in RequestFilenames :
         LET pofile == [p |-> p, c |-> c, f |-> f]
             got == LockRows(pofile)
             started == [IdleRequest EXCEPT !.user = user, !.p = p, !.c = c,
                                            !.f = f]
         IN  inflight' = [inflight EXCEPT ![i] =
                 IF ComponentRows(p, c) = {} \/ POFileRows(p, c, f) = {}
                 THEN [started EXCEPT !.pc = "done", !.resp = NotFound]
                 ELSE IF Cardinality(got) > 1
                 THEN [started EXCEPT !.pc = "done",
                                      !.resp = Raised("MultipleObjectsReturned")]
                 ELSE [started EXCEPT !.pc = "looked", !.got = got]]
    /\ UNCHANGED <<db, req, resp, ops>>

\* The branch on what the lookup saw: lock.delete(), the refusal, or
\* POFileLock.objects.create(...).
RaceAct(i) ==
    /\ inflight[i].pc = "looked"
    /\ LET q == inflight[i]
           act == ToggleAct(q.user, [p |-> q.p, c |-> q.c, f |-> q.f], q.got,
                            q.p, q.c)
       IN  /\ locks' = act.locks
           /\ inflight' = [inflight EXCEPT ![i] =
                  [q EXCEPT !.pc = "done", !.got = {}, !.resp = act.resp,
                            !.ops = act.ops]]
    /\ UNCHANGED <<projects, components, units, pofiles, req, resp, ops>>

\* The response is delivered; the worker takes the next request.
RaceReturn(i) ==
    /\ inflight[i].pc = "done"
    /\ inflight' = [inflight EXCEPT ![i] = IdleRequest]
    /\ UNCHANGED <<db, req, resp, ops>>

(* ------------------------------- actions ------------------------------- *)

slug_feed ==
    \E user \in Clients, slug \in {""} \cup ProjectSlugs, param \in {"rss", "atom"} :
        LET r == [BaseReq EXCEPT !.h = "slug_feed", !.user = user, !.p = slug,
                                 !.name = param]
        IN  Apply(r, SlugFeed(r))

\* The form is valid only with a slug no other project has; an update keeps
\* the project's slug.
ProjectFormInputs(method, slug) ==
    IF method = "POST"
    THEN {f \in [fslug : ProjectSlugs, name : ProjectNames, valid : BOOLEAN] :
            /\ slug # "" => f.fslug = slug
            /\ (f.valid /\ slug = "") => ProjectRows(f.fslug) = {}}
    ELSE {[fslug |-> "", name |-> "", valid |-> FALSE]}

project_create_update ==
    \E user \in Clients, method \in Methods, slug \in {""} \cup ProjectSlugs :
      \E f \in ProjectFormInputs(method, slug) :
        LET r == [BaseReq EXCEPT !.h = "project_create_update", !.user = user,
                                 !.method = method, !.p = slug,
                                 !.fslug = f.fslug, !.name = f.name,
                                 !.valid = f.valid]
        IN  Apply(r, ProjectCreateUpdate(r))

project_delete ==
    \E user \in Clients, method \in Methods, slug \in ProjectSlugs :
        LET r == [BaseReq EXCEPT !.h = "project_delete", !.user = user,
                                 !.method = method, !.p = slug]
        IN  Apply(r, ProjectDelete(r))

\* The component form is valid only with a slug no other component of the
\* project has; an update keeps the component's slug.
ComponentFormInputs(method, p, slug) ==
    IF method = "POST"
    THEN {f \in [fslug : ComponentSlugs, valid : BOOLEAN, uvalid : BOOLEAN] :
            /\ slug # "" => f.fslug = slug
            /\ (f.valid /\ slug = "") => ComponentRows(p, f.fslug) = {}}
    ELSE {[fslug |-> "", valid |-> FALSE, uvalid |-> FALSE]}

component_create_update ==
    \E user \in Clients, method \in Methods, p \in ProjectSlugs,
       slug \in {""} \cup ComponentSlugs :
      \E f \in ComponentFormInputs(method, p, slug) :
        LET r == [BaseReq EXCEPT !.h = "component_create_update",
                                 !.user = user, !.method = method, !.p = p,
                                 !.c = slug, !.fslug = f.fslug,
                                 !.valid = f.valid, !.uvalid = f.uvalid]
        IN  /\ (slug = "" /\ f.valid /\ f.uvalid) => FreeUnitIds # {}
            /\ Apply(r, ComponentCreateUpdate(r))

component_detail ==
    \E user \in Clients, p \in ProjectSlugs, c \in ComponentSlugs :
        LET r == [BaseReq EXCEPT !.h = "component_detail", !.user = user,
                                 !.p = p, !.c = c]
        IN  Apply(r, ComponentDetail(r))

component_delete ==
    \E user \in Clients, method \in Methods, p \in ProjectSlugs,
       c \in ComponentSlugs :
        LET r == [BaseReq EXCEPT !.h = "component_delete", !.user = user,
                                 !.method = method, !.p = p, !.c = c]
        IN  Apply(r, ComponentDelete(r))

component_set_stats ==
    \E user \in Clients, p \in ProjectSlugs, c \in ComponentSlugs,
       fail \in {"none", "prepare_repo", "FileFilterError", "set_stats"} :
        LET r == [BaseReq EXCEPT !.h = "component_set_stats", !.user = user,
                                 !.p = p, !.c = c, !.fail = fail]
        IN  Apply(r, ComponentSetStats(r))

component_clear_cache ==
    \E user \in Clients, p \in ProjectSlugs, c \in ComponentSlugs :
        LET r == [BaseReq EXCEPT !.h = "component_clear_cache", !.user = user,
                                 !.p = p, !.c = c]
        IN  Apply(r, ComponentClearCache(r))

component_file ==
    \E user \in Clients, p \in ProjectSlugs, c \in ComponentSlugs,
       f \in RequestFilenames, view \in BOOLEAN,
       content \in {"ok", "not-utf8", "IOError"} :
        LET r == [BaseReq EXCEPT !.h = "component_file", !.user = user,
                                 !.p = p, !.c = c, !.f = f, !.view = view,
                                 !.content = content]
        IN  Apply(r, ComponentFile(r))

\* The upload of a request: whether the multipart payload has the file
\* field, whether the POFile has a language, and the first backend call that
\* fails. Only a POST carries a payload, and the backend is only called for
\* a payload with the file field.
SubmitInputs(method) ==
    {u \in [has_file : BOOLEAN, has_lang : BOOLEAN,
            fail : {"none", "prepare_repo", "submit1", "submit2",
                    "set_stats_for_lang"}] :
        /\ method # "POST" => ~u.has_file
        /\ ~u.has_file => (~u.has_lang /\ u.fail = "none")}

component_submit_file ==
    \E user \in Clients, method \in Methods, p \in ProjectSlugs,
       c \in ComponentSlugs, f \in RequestFilenames :
      \E u \in SubmitInputs(method) :
        LET r == [BaseReq EXCEPT !.h = "component_submit_file", !.user = user,
                                 !.method = method, !.p = p, !.c = c, !.f = f,
                                 !.has_file = u.has_file,
                                 !.has_lang = u.has_lang, !.fail = u.fail]
        IN  Apply(r, ComponentSubmitFile(r))

component_toggle_lock_file ==
    \E user \in Clients, p \in ProjectSlugs, c \in ComponentSlugs,
       f \in RequestFilenames :
        LET r == [BaseReq EXCEPT !.h = "component_toggle_lock_file",
                                 !.user = user, !.p = p, !.c = c, !.f = f]
        IN  Apply(r, ComponentToggleLockFile(r))

(* ---------------------------- specifications --------------------------- *)

Init ==
    /\ projects = {[slug |-> "p1", name |-> "n1"]}
    /\ components = {[p |-> "p1", slug |-> "c1", unit |-> 1]}
    /\ units = {[id |-> 1, name |-> GetFullName("p1", "c1")]}
    /\ pofiles = {[p |-> "p1", c |-> "c1", f |-> f] : f \in Filenames}
    /\ locks = {}
    /\ req = BaseReq
    /\ resp = NoResponse
    /\ ops = <<>>
    /\ inflight = [i \in 1..NReq |-> IdleRequest]

Next ==
    \/ slug_feed
    \/ project_create_update
    \/ project_delete
    \/ component_create_update
    \/ component_detail
    \/ component_delete
    \/ component_set_stats
    \/ component_clear_cache
    \/ component_file
    \/ component_submit_file
    \/ component_toggle_lock_file

Spec == Init /\ [][Next]_vars

NextRace ==
    \E i \in 1..NReq : RaceLookup(i) \/ RaceAct(i) \/ RaceReturn(i)

SpecRace == Init /\ [][NextRace]_vars

(* ------------------------------- claims -------------------------------- *)

Before(a, b, seq) ==
    \E i, j \in 1..Len(seq) : i < j /\ seq[i] = a /\ seq[j] = b

Occurrences(a, seq) == Cardinality({i \in 1..Len(seq) : seq[i] = a})

Performed(seq) == {seq[i] : i \in 1..Len(seq)}

BackendCalls ==
    {"prepare_repo", "submit", "trans.set_stats", "trans.set_stats_for_lang",
     "trans.guess_language", "clear_cache"}

\* C1: a lock toggle by a logged-in user on an existing component and POFile
\* redirects to the component detail page and (a) with no lock, creates one
\* owned by the requester, (b) with the requester's lock, deletes it and
\* shows 'Lock removed.', (c) with another user's lock, leaves the lock table
\* as it is and shows the error message.
C1_ToggleStep ==
    (/\ req'.h = "component_toggle_lock_file"
     /\ IsAuthenticated(req'.user)
     /\ ComponentRows(req'.p, req'.c) # {}
     /\ POFileRows(req'.p, req'.c, req'.f) # {})
    =>
    LET pofile == [p |-> req'.p, c |-> req'.c, f |-> req'.f]
        before == LockRows(pofile)
        after == {x \in locks' : x.pofile = pofile}
    IN  /\ resp' = Redirect(ComponentDetailUrl(req'.p, req'.c))
        /\ before = {} =>
              /\ Cardinality(after) = 1
              /\ \A x \in after : x.owner = req'.user
              /\ locks' \ after = locks
              /\ ops' = <<"lock.create", MsgLockCreated>>
        /\ (before # {} /\ \A x \in before : x.owner = req'.user) =>
              /\ after = {}
              /\ locks' = locks \ before
              /\ ops' = <<"lock.delete", MsgLockRemoved>>
        /\ (\E x \in before : x.owner # req'.user) =>
              /\ locks' = locks
              /\ ops' = <<MsgLockNotOwner>>

\* C1: every step of the views is a three-way lock toggle as C1_ToggleStep
\* states it.
C1_ThreeWayToggle == [][C1_ToggleStep]_vars

\* C1, reached: a toggle was refused because the lock is another user's.
C1_Witness ==
    /\ req.h = "component_toggle_lock_file"
    /\ ops = <<MsgLockNotOwner>>
    /\ \E x \in locks :
          /\ x.pofile = [p |-> req.p, c |-> req.c, f |-> req.f]
          /\ x.owner # req.user

\* C2: whatever the interleaving of the toggle requests' steps, no POFile has
\* more than one POFileLock row.
C2_AtMostOneLockPerPOFile ==
    \A x, y \in locks : x.pofile = y.pofile => x = y

\* C3: project_delete, by a logged-in user on an existing project: a POST
\* deletes the project, records exactly one deletion entry, creates the user
\* message and redirects to the project list; any other method changes
\* nothing, records nothing and renders the confirmation page.
C3_DeleteStep ==
    (/\ req'.h = "project_delete"
     /\ IsAuthenticated(req'.user)
     /\ ProjectRows(req'.p) # {})
    =>
    IF req'.method = "POST"
    THEN /\ {x \in projects' : x.slug = req'.p} = {}
         /\ Occurrences("project.delete", ops') = 1
         /\ Occurrences("log_deletion", ops') = 1
         /\ MsgProjectDeleted \in Performed(ops')
         /\ resp' = Redirect(ProjectListUrl)
    ELSE /\ db' = db
         /\ ops' = <<>>
         /\ resp' = Render("projects/project_confirm_delete.html")

\* C3: every step of the views deletes a project only on a POST, as
\* C3_DeleteStep states it.
C3_DeleteOnlyOnPost == [][C3_DeleteStep]_vars

\* C3, reached: a POST deleted the project and logged the deletion.
C3_Witness ==
    /\ req.h = "project_delete"
    /\ req.method = "POST"
    /\ resp = Redirect(ProjectListUrl)
    /\ ProjectRows(req.p) = {}
    /\ "log_deletion" \in Performed(ops)

\* C4: project_create_update, by a logged-in user (on an existing project
\* when a slug is given): a POST with a valid form persists the project,
\* records an addition entry when the project did not exist before and a
\* change entry when it did, and redirects to the project's detail page;
\* every other request persists nothing, records nothing and shows the form.
C4_CreateUpdateStep ==
    (/\ req'.h = "project_create_update"
     /\ IsAuthenticated(req'.user)
     /\ (req'.p = "" \/ ProjectRows(req'.p) # {}))
    =>
    IF req'.method = "POST" /\ req'.valid
    THEN /\ {x \in projects' : x.slug = req'.fslug}
              = {[slug |-> req'.fslug, name |-> req'.name]}
         /\ Occurrences("project.save", ops') = 1
         /\ IF ProjectRows(req'.fslug) = {}
            THEN /\ Occurrences("log_addition", ops') = 1
                 /\ "log_change" \notin Performed(ops')
            ELSE /\ Occurrences("log_change", ops') = 1
                 /\ "log_addition" \notin Performed(ops')
         /\ resp' = Redirect(ProjectDetailUrl(req'.fslug))
    ELSE /\ db' = db
         /\ ops' = <<>>
         /\ resp' = Render("projects/project_form.html")

\* C4: every step of the views saves and logs a project as
\* C4_CreateUpdateStep states it.
C4_ProjectSaveAndLog == [][C4_CreateUpdateStep]_vars

\* C4, reached: a valid POST renamed an existing project and logged a change.
C4_Witness ==
    /\ req.h = "project_create_update"
    /\ req.p # ""
    /\ "log_change" \in Performed(ops)
    /\ [slug |-> req.p, name |-> "n2"] \in projects
    /\ resp = Redirect(ProjectDetailUrl(req.p))

\* C5: component_create_update, by a logged-in user on an existing project
\* (and component, when a slug is given): unless both forms validate, no
\* table changes and nothing is recorded; when both validate, the unit is
\* named with the component's full name before it is saved, it is saved
\* before the component, and the saved component references the saved unit,
\* whose name is the full name.
C5_CreateUpdateStep ==
    (/\ req'.h = "component_create_update"
     /\ IsAuthenticated(req'.user)
     /\ ProjectRows(req'.p) # {}
     /\ (req'.c = "" \/ ComponentRows(req'.p, req'.c) # {}))
    =>
    IF req'.method = "POST" /\ req'.valid /\ req'.uvalid
    THEN /\ Before("unit.name = component.get_full_name()", "unit.save", ops')
         /\ Before("unit.save", "component.unit = unit", ops')
         /\ Before("component.unit = unit", "component.save", ops')
         /\ Occurrences("unit.save", ops') = 1
         /\ Occurrences("component.save", ops') = 1
         /\ \E co \in components' :
               /\ co.p = req'.p /\ co.slug = req'.fslug
               /\ [id |-> co.unit, name |-> GetFullName(co.p, co.slug)] \in units'
               /\ \A u \in units' : u.id = co.unit => u.name = GetFullName(co.p, co.slug)
    ELSE /\ db' = db
         /\ ops' = <<>>

\* C5: every step of the views saves a component and its unit as
\* C5_CreateUpdateStep states it.
C5_UnitBeforeComponent == [][C5_CreateUpdateStep]_vars

\* C5, reached: a component was created with a newly saved unit.
C5_Witness ==
    /\ req.h = "component_create_update"
    /\ req.c = ""
    /\ ops # <<>>
    /\ ops[Len(ops)] = "log_addition"
    /\ \E co \in components : co.unit # 1 /\ \E u \in units : u.id = co.unit

\* C6: a POST with the file field, on an existing component and POFile,
\* whose submission fails (in component.submit or in set_stats_for_lang)
\* ends with the apology message and the redirect to the component detail
\* page.
C6_SubmitFailureCaught ==
    (/\ req.h = "component_submit_file"
     /\ IsAuthenticated(req.user)
     /\ req.method = "POST"
     /\ req.has_file
     /\ ComponentRows(req.p, req.c) # {}
     /\ POFileRows(req.p, req.c, req.f) # {}
     /\ req.fail \in {"submit1", "submit2", "set_stats_for_lang"})
    =>
    /\ resp = Redirect(ComponentDetailUrl(req.p, req.c))
    /\ MsgSorry \in Performed(ops)

\* C7: an unauthenticated request to a handler that changes persistent state
\* or triggers a backend action is stopped by the login guard: nothing is
\* performed and the response is the redirect to the login page.
MutatingHandlers ==
    {"project_create_update", "project_delete", "component_create_update",
     "component_delete", "component_set_stats", "component_clear_cache",
     "component_submit_file", "component_toggle_lock_file"}

C7_LoginGuardOnMutators ==
    (req.h \in MutatingHandlers /\ ~IsAuthenticated(req.user))
    => (ops = <<>> /\ resp = LoginRedirect)

\* C8: component_set_stats on an existing component calls prepare_repo
\* before trans.set_stats, and when set_stats raises the file-filter error
\* the advisory message is shown and the response is the redirect to the
\* component detail page, as when set_stats succeeds.
C8_FileFilterErrorHandled ==
    (/\ req.h = "component_set_stats"
     /\ ComponentRows(req.p, req.c) # {}
     /\ req.fail \in {"none", "FileFilterError"})
    =>
    /\ Before("prepare_repo", "trans.set_stats", ops)
    /\ resp = Redirect(ComponentDetailUrl(req.p, req.c))
    /\ req.fail = "FileFilterError" => MsgFileFilter \in Performed(ops)

\* C9: component_submit_file never calls the backend (checkout, submit,
\* statistics) for a POST without the file field or for a non-POST request;
\* the logged-in user gets the 'please select a file' message (the component
\* and POFile existing) or the 'need a POST' message, and the redirect to
\* the component detail page.
C9_NoFileNoBackend ==
    req.h = "component_submit_file" =>
        /\ (req.method = "POST" /\ ~req.has_file) =>
              /\ Performed(ops) \cap BackendCalls = {}
              /\ (/\ IsAuthenticated(req.user)
                  /\ ComponentRows(req.p, req.c) # {}
                  /\ POFileRows(req.p, req.c, req.f) # {})
                 => /\ ops = <<MsgSelectFile>>
                    /\ resp = Redirect(ComponentDetailUrl(req.p, req.c))
        /\ req.method # "POST" =>
              /\ Performed(ops) \cap BackendCalls = {}
              /\ IsAuthenticated(req.user)
                 => /\ ops = <<MsgNeedPost>>
                    /\ resp = Redirect(ComponentDetailUrl(req.p, req.c))

\* C9, reached: a POST without the file field got the message and redirect.
C9_Witness ==
    /\ req.h = "component_submit_file"
    /\ req.method = "POST"
    /\ ~req.has_file
    /\ ops = <<MsgSelectFile>>
    /\ resp = Redirect(ComponentDetailUrl(req.p, req.c))

\* C10: component_file answers not-found whenever the component does not
\* exist or get_file_content fails with an IOError, in the raw and in the
\* view mode, and answers with content only when the backend returned some.
C10_MissingFileNotFound ==
    req.h = "component_file" =>
        /\ (ComponentRows(req.p, req.c) = {} \/ req.content = "IOError")
           => resp = NotFound
        /\ resp.kind = "content" =>
              /\ ComponentRows(req.p, req.c) # {}
              /\ req.content # "IOError"
              /\ "trans.get_file_content" \in Performed(ops)

\* C10, reached: the view mode of an existing component's missing file
\* answered not-found.
C10_Witness ==
    /\ req.h = "component_file"
    /\ req.view
    /\ req.content = "IOError"
    /\ ComponentRows(req.p, req.c) # {}
    /\ resp = NotFound

====
